---- MODULE Spec2Model ----
(***************************************************************************)
(* Model of django_sp: the declarative raw-SQL filter builder              *)
(* (django_sp/helpers/rest_framework.py) and the stored procedure / view   *)
(* registry (django_sp/loader.py).                                         *)
(*                                                                         *)
(* Text that the code inspects character by character (request values,    *)
(* query-parameter names) is a sequence of one-character strings.  An     *)
(* SQL fragment is a sequence of tokens; the placeholder is the token     *)
(* "%s".                                                                   *)
(***************************************************************************)
EXTENDS Integers, Sequences, FiniteSets, TLC

VARIABLES
    filterset,      \* per instance: the RawSQLFilterSet object's fields
    owner,          \* per declared field: RawSQLFilter._filter_set
    last,           \* what the last operation of the filter builder returned or raised
    fsclass,        \* the RawSQLFilterSet subclass under use (its declaration)
    sp_list,        \* Loader._sp_list
    sp_names,       \* Loader._sp_names
    readable,       \* os.access(file, R_OK) of every artifact
    cursors,        \* the cursors that the last operation opened, "open" or "closed"
    pop,            \* where a call of Loader.populate_helper is inside its loop
    lcall           \* what the last operation of the loader returned or raised

vars == <<filterset, owner, last, fsclass, sp_list, sp_names, readable, cursors, pop, lcall>>

fvars == <<filterset, owner, last, fsclass>>
lvars == <<sp_list, sp_names, readable, cursors, pop, lcall>>

(***************************************************************************)
(* Python values.  Every value has the same shape so that any two can be  *)
(* compared: t is the type, i the integer payload (an int, the unscaled   *)
(* digits of a Decimal, the packed fields of a datetime), e the number of *)
(* fractional digits of a Decimal, s the characters of a str.             *)
(***************************************************************************)
NoneV == [t |-> "none", i |-> 0, e |-> 0, s |-> <<>>]
novalue == [t |-> "novalue", i |-> 0, e |-> 0, s |-> <<>>]
IntV(n) == [t |-> "int", i |-> n, e |-> 0, s |-> <<>>]
DecV(n, x) == [t |-> "dec", i |-> n, e |-> x, s |-> <<>>]
StrV(cs) == [t |-> "str", i |-> 0, e |-> 0, s |-> cs]
DtV(cs) == [t |-> "datetime", i |-> 0, e |-> 0, s |-> cs]

\* An exception in flight: its type and the field name its message names ("" if none).
Exc(type, field) == [type |-> type, field |-> field]
NoExc == Exc("", "")

\* the one element of a singleton set; The({e(x) : x \in {v}}) is e with x bound to the
\* value v, computed once
The(set) == CHOOSE x \in set : TRUE

Digits == <<"0", "1", "2", "3", "4", "5", "6", "7", "8", "9">>
IsDigit(c) == \E k \in 1..10 : Digits[k] = c
DigitVal(c) == (CHOOSE k \in 1..10 : Digits[k] = c) - 1

Upper == <<"A", "B", "C", "D", "E", "F", "G", "H", "I", "J", "K", "L", "M",
           "N", "O", "P", "Q", "R", "S", "T", "U", "V", "W", "X", "Y", "Z">>
Lowercase == <<"a", "b", "c", "d", "e", "f", "g", "h", "i", "j", "k", "l", "m",
           "n", "o", "p", "q", "r", "s", "t", "u", "v", "w", "x", "y", "z">>

\* str.lower() on one character and on a string
LowerChar(c) ==
    IF \E k \in 1..26 : Upper[k] = c
    THEN Lowercase[CHOOSE k \in 1..26 : Upper[k] = c]
    ELSE c
Lower(cs) == [k \in 1..Len(cs) |-> LowerChar(cs[k])]

\* The characters of a string joined into one token
RECURSIVE Str(_)
Str(cs) == IF cs = <<>> THEN "" ELSE Head(cs) \o Str(Tail(cs))

RECURSIVE Pow10(_)
Pow10(x) == IF x = 0 THEN 1 ELSE 10 * Pow10(x - 1)

\* The value of a run of digits
RECURSIVE DigitsVal(_, _)
DigitsVal(cs, acc) ==
    IF cs = <<>> THEN acc ELSE DigitsVal(Tail(cs), acc * 10 + DigitVal(Head(cs)))

AllDigits(cs) == Len(cs) > 0 /\ \A k \in 1..Len(cs) : IsDigit(cs[k])
HasSign(cs) == Len(cs) > 0 /\ cs[1] \in {"-", "+"}
Unsigned(cs) == IF HasSign(cs) THEN Tail(cs) ELSE cs
Signed(cs, n) == IF HasSign(cs) /\ cs[1] = "-" THEN 0 - n ELSE n

\* Index of the first "." of a string, 0 if there is none
DotAt(cs) == IF \E k \in 1..Len(cs) : cs[k] = "." THEN CHOOSE k \in 1..Len(cs) :
                 cs[k] = "." /\ \A j \in 1..(k - 1) : cs[j] # "." ELSE 0

(***************************************************************************)
(* The converters (_converter of each field class).  A conversion returns *)
(* [v, exc]: the converted value, or the type of the exception raised.    *)
(***************************************************************************)
Conv(v, exc) == [v |-> v, exc |-> exc]

\* int(value): an optional sign and decimal digits, ValueError otherwise
ConvInt(cs) ==
    IF AllDigits(Unsigned(cs))
    THEN Conv(IntV(Signed(cs, DigitsVal(Unsigned(cs), 0))), "")
    ELSE Conv(NoneV, "ValueError")

\* Decimal(value): an optional sign, digits and at most one ".", with a digit somewhere;
\* decimal.InvalidOperation (an ArithmeticError) otherwise
ConvDecimal(cs) ==
    LET u == Unsigned(cs)
        d == DotAt(u)
        whole == IF d = 0 THEN u ELSE SubSeq(u, 1, d - 1)
        frac == IF d = 0 THEN <<>> ELSE SubSeq(u, d + 1, Len(u))
    IN  IF AllDigits(whole \o frac)
        THEN Conv(DecV(Signed(cs, DigitsVal(whole \o frac, 0)), Len(frac)), "")
        ELSE Conv(NoneV, "InvalidOperation")

\* str(value)
ConvStr(cs) == Conv(StrV(cs), "")

(***************************************************************************)
(* Date and time text.  A format is a sequence of character classes: "d"  *)
(* for one digit, any other entry for that literal character.             *)
(***************************************************************************)
DateTimeFormat == <<"d", "d", "d", "d", "-", "d", "d", "-", "d", "d", " ", "d", "d", ":", "d", "d">>
DateFormat == <<"d", "d", "d", "d", "-", "d", "d", "-", "d", "d">>

MatchesFormat(cs, fmt) ==
    /\ Len(cs) = Len(fmt)
    /\ \A k \in 1..Len(fmt) : IF fmt[k] = "d" THEN IsDigit(cs[k]) ELSE cs[k] = fmt[k]

Num(cs, a, b) == DigitsVal(SubSeq(cs, a, b), 0)

DaysIn(month) == IF month = 2 THEN 28 ELSE IF month \in {4, 6, 9, 11} THEN 30 ELSE 31

\* the fields of a matched text are those of a real date and time
ValidFields(cs) ==
    /\ Num(cs, 1, 4) >= 1
    /\ Num(cs, 6, 7) \in 1..12
    /\ Num(cs, 9, 10) \in 1..DaysIn(Num(cs, 6, 7))
    /\ Len(cs) > 10 => Num(cs, 12, 13) \in 0..23 /\ Num(cs, 15, 16) \in 0..59

\* django.utils.dateparse.parse_datetime: None for text that is not well formatted,
\* ValueError for well formatted text that is no valid date and time
parse_datetime(cs) ==
    IF ~MatchesFormat(cs, DateTimeFormat) THEN Conv(NoneV, "")
    ELSE IF ~ValidFields(cs) THEN Conv(NoneV, "ValueError")
    ELSE Conv(DtV(cs), "")

\* datetime.datetime.strptime(value, input_format): ValueError unless the text matches
strptime(cs, fmt) ==
    IF MatchesFormat(cs, fmt) /\ ValidFields(cs) THEN Conv(DtV(cs), "")
    ELSE Conv(NoneV, "ValueError")


(***************************************************************************)
(* Filter fields.  A declared field is a record of the constructor        *)
(* arguments of its class; map_to is <<>> for None and <<column>>         *)
(* otherwise, input_format is <<>> for None.                              *)
(***************************************************************************)
Field(name, kind) ==
    [name |-> name, kind |-> kind, map_to |-> <<>>, default |-> NoneV,
     max_value |-> NoneV, min_value |-> NoneV, max_length |-> 255, input_format |-> <<>>,
     search_fields |-> <<>>, strict_fields |-> {}, strict_search |-> FALSE,
     case_sensitive |-> TRUE, wildcard_place |-> "both"]

\* bool(x) of a bound: None and zero are false
Truthy(v) ==
    CASE v.t = "none" -> FALSE
      [] v.t \in {"int", "dec"} -> v.i # 0
      [] v.t = "str" -> v.s # <<>>
      [] OTHER -> TRUE

\* a > b and a < b between int and Decimal values
Greater(a, b) == a.i * Pow10(b.e) > b.i * Pow10(a.e)
Less(a, b) == a.i * Pow10(b.e) < b.i * Pow10(a.e)

\* RawSQLFilter._convert around a converter's result: TypeError and ValueError become
\* ValidationError, any other exception passes
Caught(c) == IF c.exc \in {"ValueError", "TypeError"} THEN Conv(NoneV, "ValidationError") ELSE c

\* RawSQLFilter._convert, DateTimeFilter._convert: the converter of the field's class
Convert(f, cs) ==
    CASE f.kind \in {"string", "search"} -> Caught(ConvStr(cs))
      [] f.kind = "integer" -> Caught(ConvInt(cs))
      [] f.kind = "decimal" -> Caught(ConvDecimal(cs))
      [] f.kind = "datetime" ->
            IF f.input_format # <<>> THEN strptime(cs, f.input_format) ELSE parse_datetime(cs)

\* RawSQLFilter._validate (nothing), IntegerFilter._validate: the exception type raised, "" if none
Validate(f, v) ==
    IF f.kind \in {"integer", "decimal"}
    THEN IF Truthy(f.max_value) /\ Greater(v, f.max_value) THEN "ValidationError"
         ELSE IF Truthy(f.min_value) /\ Less(v, f.min_value) THEN "ValidationError"
         ELSE ""
    ELSE ""

\* lines 151-153 on a converted value: the value is validated and returned
Validated(f, c) ==
    IF c.exc # "" THEN c
    ELSE The({IF x # "" THEN Conv(NoneV, x) ELSE c : x \in {Validate(f, c.v)}})

\* RawSQLFilter._parse_value: novalue passes through, anything else is converted and validated
BaseParseValue(f, value) ==
    IF value = novalue THEN Conv(novalue, "")
    ELSE The({Validated(f, c) : c \in {Convert(f, value.s)}})

Min(a, b) == IF a < b THEN a ELSE b

\* the slice [:max_length] of what the base method returned; slicing novalue is a TypeError
Sliced(f, r) ==
    IF r.exc # "" THEN r
    ELSE IF r.v.t # "str" THEN Conv(NoneV, "TypeError")
    ELSE Conv(StrV(SubSeq(r.v.s, 1, Min(Len(r.v.s), f.max_length))), "")

\* _parse_value of the field's class: RawSQLFilter._parse_value, StringFilter._parse_value
ParseValue(f, value) ==
    The({IF f.kind \in {"string", "search"} THEN Sliced(f, r) ELSE r :
            r \in {BaseParseValue(f, value)}})

\* RawSQLFilter.OPERATORS_MAPPING.get(condition, condition)
OperatorsMapping(condition) ==
    CASE condition = "gte" -> ">="
      [] condition = "gt" -> ">"
      [] condition = "lte" -> "<="
      [] condition = "lt" -> "<"
      [] condition = "exact" -> "="
      [] condition = "isnull" -> "_isnull_condition_replace"
      [] OTHER -> condition

\* RawSQLFilter._isnull_condition_replace: [cond, value, exc, setowner]
IsnullConditionReplace(value) ==
    The({IF lowered = "true"
         THEN [cond |-> "IS NULL", value |-> novalue, exc |-> "", setowner |-> FALSE]
         ELSE IF lowered = "false"
         THEN [cond |-> "IS NOT NULL", value |-> novalue, exc |-> "", setowner |-> FALSE]
         ELSE [cond |-> "", value |-> value, exc |-> "ValueError", setowner |-> FALSE] :
            lowered \in {Str(Lower(value.s))}})

(***************************************************************************)
(* filter() of a field returns [frag, appends, exc, setowner]: the SQL    *)
(* fragment, the values it assigns to its filter set's params in order,   *)
(* the type of the exception it raises ("" if none) and whether the call  *)
(* replaced the field's _filter_set by the request value.                 *)
(***************************************************************************)
FilterResult(frag, appends, exc, setowner) ==
    [frag |-> frag, appends |-> appends, exc |-> exc, setowner |-> setowner]

\* RawSQLFilter.filter, lines 122-126: the attribute that the operator names is called when
\* it is callable: [cond, value, exc, setowner]
CallOperatorMethod(f, sql_condition, value) ==
    CASE sql_condition = "_isnull_condition_replace" -> IsnullConditionReplace(value)
      [] sql_condition = "set_filterset" ->
            \* returns None: unpacking it into two names is a TypeError
            [cond |-> "", value |-> value, exc |-> "TypeError", setowner |-> TRUE]
      [] OTHER -> [cond |-> sql_condition, value |-> value, exc |-> "", setowner |-> FALSE]

\* lines 119-120: the column that the fragment names
Column(f, name) == IF f.map_to # <<>> THEN f.map_to[1] ELSE name

\* lines 128-131: the fragment, then the parsed value assigned to the filter set's params
FilterTail(column, m, parsed) ==
    IF parsed.exc # "" THEN FilterResult(<<>>, <<>>, parsed.exc, FALSE)
    ELSE FilterResult(<<column, m.cond>> \o (IF m.value # novalue THEN <<"%s">> ELSE <<>>),
                      <<parsed.v>>, "", FALSE)

\* RawSQLFilter.filter
BaseFilter(f, name, condition, value) ==
    The({IF m.exc # "" THEN FilterResult(<<>>, <<>>, m.exc, m.setowner)
         ELSE The({FilterTail(Column(f, name), m, parsed) : parsed \in {ParseValue(f, m.value)}}) :
            m \in {CallOperatorMethod(f, OperatorsMapping(condition), value)}})

\* CombinedSearchFilter.value_templates[wildcard_place].format(value)
Wildcarded(place, cs) ==
    CASE place = "start" -> <<"%">> \o cs
      [] place = "end" -> cs \o <<"%">>
      [] OTHER -> <<"%">> \o cs \o <<"%">>

\* " OR ".join(conditions) and " AND ".join(conditions) over fragments
RECURSIVE Join(_, _)
Join(frags, sep) ==
    IF frags = <<>> THEN <<>>
    ELSE IF Len(frags) = 1 THEN frags[1]
    ELSE frags[1] \o <<sep>> \o Join(Tail(frags), sep)

\* lines 241-252: one comparison and one parameter for each searched field
SearchConditions(f, value, parsed) ==
    LET strict(k) == f.strict_search \/ f.search_fields[k] \in f.strict_fields
        op(k) == IF strict(k) THEN "=" ELSE IF f.case_sensitive THEN "LIKE" ELSE "ILIKE"
        conds == [k \in 1..Len(f.search_fields) |-> <<f.search_fields[k], op(k), "%s">>]
        vals == [k \in 1..Len(f.search_fields) |->
                    IF strict(k) THEN value ELSE StrV(Wildcarded(f.wildcard_place, parsed.v.s))]
    IN  FilterResult(<<"(">> \o Join(conds, "OR") \o <<")">>, vals, "", FALSE)

\* CombinedSearchFilter.filter
SearchFilter(f, name, condition, value) ==
    The({IF parsed.exc # "" THEN FilterResult(<<>>, <<>>, parsed.exc, FALSE)
         ELSE SearchConditions(f, value, parsed) : parsed \in {ParseValue(f, value)}})

\* filter() of the field's class
Filter(f, name, condition, value) ==
    IF f.kind = "search" THEN SearchFilter(f, name, condition, value)
    ELSE BaseFilter(f, name, condition, value)

(***************************************************************************)
(* Filter set classes: the declared fields in declaration order,          *)
(* Meta.logical_or and Meta.order_by (<<>> when not configured).          *)
(***************************************************************************)
FilterSetClass(filters, logical_or, order_by) ==
    [filters |-> filters, logical_or |-> logical_or, order_by |-> order_by]

Noop == StrV(<<"n", "o", "o", "p">>)

\* the three fields of the test classes GenericFilterSet and GenericORFilterSet
GenericFields ==
    << [Field("some_name", "string") EXCEPT !.map_to = <<"name">>, !.default = Noop],
       [Field("age", "integer") EXCEPT !.max_value = IntV(100), !.min_value = IntV(10)],
       [Field("amount", "decimal") EXCEPT !.max_value = IntV(400), !.min_value = IntV(0 - 300)] >>

GenericFilterSet == FilterSetClass(GenericFields, <<>>, <<"-", "a", "m", "o", "u", "n", "t">>)
GenericORFilterSet == FilterSetClass(GenericFields, <<"age", "amount">>, <<"a", "m", "o", "u", "n", "t">>)

\* a filter set over the remaining field classes, every field without a default
EventFilterSet ==
    FilterSetClass(
        << [Field("title", "string") EXCEPT !.max_length = 3],
           Field("created", "datetime"),
           [Field("day", "datetime") EXCEPT !.input_format = DateFormat],
           [Field("q", "search") EXCEPT !.search_fields = <<"name", "code">>,
                                        !.strict_fields = {"code"}] >>,
        <<"title", "q">>, <<>>)

\* numeric fields whose bounds include zero, and a mapped field with a default
ScoreFilterSet ==
    FilterSetClass(
        << [Field("score", "integer") EXCEPT !.max_value = IntV(0), !.min_value = IntV(0 - 5)],
           [Field("level", "decimal") EXCEPT !.min_value = IntV(0), !.max_value = IntV(9)],
           [Field("rank", "integer") EXCEPT !.map_to = <<"position">>, !.default = IntV(1)] >>,
        <<>>, <<>>)

FilterSetClasses == {GenericFilterSet, GenericORFilterSet, EventFilterSet, ScoreFilterSet}

FieldNames(cls) == {cls.filters[k].name : k \in 1..Len(cls.filters)}
AllFieldNames == UNION {FieldNames(cls) : cls \in FilterSetClasses}
InLogicalOr(cls, name) == \E k \in 1..Len(cls.logical_or) : cls.logical_or[k] = name

(***************************************************************************)
(* Requests.  A query parameter is [key, value]: the key as              *)
(* param.split('__') returns it (one segment when the name holds no       *)
(* '__'), the value as text.  query_params is a dict: its keys are        *)
(* distinct and it iterates in insertion order.                           *)
(***************************************************************************)
Param(key, value) == [key |-> key, value |-> value]

GenericParams ==
    << Param(<<<<"s", "o", "m", "e", "_", "n", "a", "m", "e">>>>, <<"o", "l", "o", "l", "o">>),
       Param(<<<<"a", "g", "e">>>>, <<"5", "0">>),
       Param(<<<<"a", "g", "e">>>>, <<"1", "5", "0">>),
       Param(<<<<"a", "g", "e">>>>, <<"4", "x">>),
       Param(<<<<"a", "g", "e">>, <<"g", "t", "e">>>>, <<"5">>),
       Param(<<<<"A", "g", "e">>, <<"i", "s", "n", "u", "l", "l">>>>, <<"F", "a", "l", "s", "e">>),
       Param(<<<<"a", "g", "e">>, <<"i", "s", "n", "u", "l", "l">>>>, <<"n", "o">>),
       Param(<<<<"a", "g", "e">>, <<"%", "s">>>>, <<"5", "0">>),
       Param(<<<<"s", "o", "m", "e", "_", "n", "a", "m", "e">>, <<"i", "s", "n", "u", "l", "l">>>>, <<"t", "r", "u", "e">>),
       Param(<<<<"a", "m", "o", "u", "n", "t">>>>, <<"1", "0", "0", ".", "5">>),
       Param(<<<<"a", "m", "o", "u", "n", "t">>, <<"l", "t">>>>, <<"-", "3", "0", "0", ".", "5">>),
       Param(<<<<"a", "m", "o", "u", "n", "t">>>>, <<"x", "1">>),
       Param(<<<<"a", "m", "o", "u", "n", "t">>, <<"i", "s", "n", "u", "l", "l">>>>, <<"T", "R", "U", "E">>),
       Param(<<<<"a", "g", "e">>, <<"l", "t">>, <<"x">>>>, <<"6", "0">>),
       Param(<<<<"a", "g", "e">>, <<"s", "e", "t", "_", "f", "i", "l", "t", "e", "r", "s", "e", "t">>>>, <<"1">>) >>

EventParams ==
    << Param(<<<<"t", "i", "t", "l", "e">>>>, <<"a", "b", "c", "d", "e", "f">>),
       Param(<<<<"c", "r", "e", "a", "t", "e", "d">>>>, <<"2", "0", "2", "0", "-", "0", "1", "-", "1", "5", " ", "1", "0", ":", "3", "0">>),
       Param(<<<<"c", "r", "e", "a", "t", "e", "d">>>>, <<"2", "0", "2", "0", "-", "0", "2", "-", "3", "0", " ", "1", "0", ":", "3", "0">>),
       Param(<<<<"c", "r", "e", "a", "t", "e", "d">>>>, <<"t", "o", "d", "a", "y">>),
       Param(<<<<"c", "r", "e", "a", "t", "e", "d">>, <<"i", "s", "n", "u", "l", "l">>>>, <<"t", "r", "u", "e">>),
       Param(<<<<"d", "a", "y">>>>, <<"2", "0", "2", "0", "-", "0", "1", "-", "1", "5">>),
       Param(<<<<"d", "a", "y">>, <<"g", "t", "e">>>>, <<"1", "5", "/", "0", "1", "/", "2", "0", "2", "0">>),
       Param(<<<<"q">>>>, <<"a", "b", "c", "d">>),
       Param(<<<<"o", "t", "h", "e", "r">>>>, <<"1">>) >>

ScoreParams ==
    << Param(<<<<"s", "c", "o", "r", "e">>>>, <<"5">>),
       Param(<<<<"s", "c", "o", "r", "e">>>>, <<"0">>),
       Param(<<<<"s", "c", "o", "r", "e">>>>, <<"-", "3">>),
       Param(<<<<"s", "c", "o", "r", "e">>, <<"g", "t">>>>, <<"-", "7">>),
       Param(<<<<"l", "e", "v", "e", "l">>>>, <<"-", "1", ".", "5">>),
       Param(<<<<"l", "e", "v", "e", "l">>>>, <<"9", ".", "5">>),
       Param(<<<<"l", "e", "v", "e", "l">>, <<"l", "t", "e">>>>, <<"2", ".", "5">>),
       Param(<<<<"r", "a", "n", "k">>>>, <<"2">>),
       Param(<<<<"r", "a", "n", "k">>, <<"i", "s", "n", "u", "l", "l">>>>, <<"f", "a", "l", "s", "e">>) >>

ParamPool(cls) ==
    IF cls = EventFilterSet THEN EventParams
    ELSE IF cls = ScoreFilterSet THEN ScoreParams
    ELSE GenericParams

\* the most query parameters of one request
MaxParams == 2

\* the requests of at most most parameters with distinct names
RequestsOf(cls, most) ==
    LET pool == ParamPool(cls)
        idx == UNION {[1..n -> 1..Len(pool)] : n \in 0..most}
    IN  {[k \in 1..Len(is) |-> pool[is[k]]] : is \in
            {js \in idx : \A a, b \in 1..Len(js) : a # b => pool[js[a]].key # pool[js[b]].key}}

\* the requests of at most MaxParams parameters with distinct names
Requests(cls) == RequestsOf(cls, MaxParams)

(***************************************************************************)
(* Filter set instances.                                                   *)
(***************************************************************************)
Instances == {"A", "B"}

\* an instance that has not been constructed
NoInstance ==
    [alive |-> FALSE, cls |-> FilterSetClass(<<>>, <<>>, <<>>),
     request_filters |-> [n \in AllFieldNames |-> <<>>],
     params_values |-> <<>>, conditions_built |-> FALSE,
     sql_cached |-> FALSE, sql |-> <<>>]

\* RawSQLFilterSet._get_filter_from_query_param: the condition of a parameter name
Condition(key) == IF Len(key) = 1 THEN "=" ELSE Str(key[2])

\* the (condition, value) pairs that a request gives for a field name, in submission order
RECURSIVE CondsFor(_, _)
CondsFor(request, name) ==
    IF request = <<>> THEN <<>>
    ELSE (IF Str(Lower(Head(request).key[1])) = name
          THEN <<[cond |-> Condition(Head(request).key), value |-> StrV(Head(request).value)]>>
          ELSE <<>>) \o CondsFor(Tail(request), name)

\* RawSQLFilterSet._build_request_filters: [exc, rf]; a name with more than one '__'
\* does not unpack into (param, condition)
BuildRequestFilters(request) ==
    IF \E k \in 1..Len(request) : Len(request[k].key) > 2
    THEN [exc |-> "ValueError", rf |-> NoInstance.request_filters]
    ELSE [exc |-> "", rf |-> [n \in AllFieldNames |-> CondsFor(request, n)]]

\* the setter of RawSQLFilterSet.params
ParamsSetter(params_values, value) ==
    IF value # novalue THEN Append(params_values, value) ELSE params_values

\* the setter applied to each value of a sequence in turn
RECURSIVE SetAll(_, _)
SetAll(params_values, values) ==
    IF values = <<>> THEN params_values
    ELSE ParamsSetter(SetAll(params_values, SubSeq(values, 1, Len(values) - 1)),
                      values[Len(values)])

\* the fields of a group, in declaration order
RECURSIVE Group(_, _, _)
Group(cls, filters, in_or) ==
    IF filters = <<>> THEN <<>>
    ELSE (IF InLogicalOr(cls, Head(filters).name) = in_or THEN <<Head(filters)>> ELSE <<>>)
         \o Group(cls, Tail(filters), in_or)

(***************************************************************************)
(* RawSQLFilterSet._generate_conditions, run to its end or to the first   *)
(* exception.  The state it runs on is [fs, ow, frags, exc]: every        *)
(* instance, every field's _filter_set, the fragments yielded so far and  *)
(* the exception that ended it.                                           *)
(***************************************************************************)
\* lines 369-373 around what filter() did: a ValidationError is raised again with the
\* field's name, any other exception passes, the values reach the params of the filter
\* set that the field refers to
Emitted(name, r, st) ==
    IF r.exc = "ValidationError" THEN [st EXCEPT !.exc = Exc("ValidationError", name)]
    ELSE IF r.exc # ""
    THEN [st EXCEPT !.ow[name] = IF r.setowner THEN "str" ELSE @, !.exc = Exc(r.exc, "")]
    ELSE IF st.ow[name] \notin Instances THEN [st EXCEPT !.exc = Exc("AttributeError", "")]
    ELSE [st EXCEPT !.fs[st.ow[name]].params_values = SetAll(@, r.appends),
                    !.frags = Append(@, r.frag)]

\* one request condition of a field (lines 368-373)
EmitCondition(self, f, c, st) ==
    The({Emitted(f.name, r, st) : r \in {Filter(f, f.name, c.cond, c.value)}})

\* the loop over the request conditions of a field, from the k-th on
RECURSIVE EmitConditions(_, _, _, _, _)
EmitConditions(self, f, conds, k, st) ==
    IF k > Len(conds) \/ st.exc # NoExc THEN st
    ELSE The({EmitConditions(self, f, conds, k + 1, st2) :
                st2 \in {EmitCondition(self, f, conds[k], st)}})

\* the implicit condition of a field with a default (lines 374-376)
EmitDefault(self, f, st) ==
    [st EXCEPT !.fs[self].params_values = ParamsSetter(@, f.default),
               !.frags = Append(@, <<f.name, "=", "%s">>)]

\* one turn of the loop over the fields (lines 366-376)
FieldConditions(self, f, st) ==
    The({IF conds # <<>> THEN EmitConditions(self, f, conds, 1, st)
         ELSE IF f.default # NoneV THEN EmitDefault(self, f, st)
         ELSE st : conds \in {st.fs[self].request_filters[f.name]}})

\* the loop over the fields of a group, from the k-th on
RECURSIVE GenerateLoop(_, _, _, _)
GenerateLoop(self, filters, k, st) ==
    IF k > Len(filters) \/ st.exc # NoExc THEN st
    ELSE The({GenerateLoop(self, filters, k + 1, st2) :
                st2 \in UNION {{FieldConditions(self, f, st)} : f \in {filters[k]}}})

\* RawSQLFilterSet._generate_conditions over the fields of a group
GenerateConditions(self, filters, st) ==
    The({GenerateLoop(self, group, 1, st) : group \in {filters}})

\* RawSQLFilterSet._get_order_by
GetOrderBy(cls) ==
    IF cls.order_by = <<>> THEN <<>>
    ELSE IF Head(cls.order_by) = "-" THEN <<"ORDER BY", Str(Tail(cls.order_by)), "DESC">>
    ELSE <<"ORDER BY", Str(cls.order_by), "ASC">>

\* lines 323-326: the AND fragments joined, the OR group appended, the ordering appended
RawSql(cls, and_cond, or_cond) ==
    (IF cls.logical_or # <<>>
     THEN Join(and_cond, "AND") \o <<"AND", "(">>
          \o (IF or_cond # <<>> THEN Join(or_cond, "OR") ELSE <<"TRUE">>) \o <<")">>
     ELSE Join(and_cond, "AND"))
    \o GetOrderBy(cls)

\* line 315 consumed by line 323: the conditions of the fields outside logical_or
AndConditions(self, fs, ow) ==
    GenerateConditions(self, Group(fs[self].cls, fs[self].cls.filters, FALSE),
                       [fs |-> fs, ow |-> ow, frags |-> <<>>, exc |-> NoExc])

\* line 319 consumed by line 325: the conditions of the fields of logical_or, generated
\* only when logical_or is configured and the AND group raised nothing
OrConditions(self, and_) ==
    IF and_.fs[self].cls.logical_or # <<>> /\ and_.exc = NoExc
    THEN GenerateConditions(self, Group(and_.fs[self].cls, and_.fs[self].cls.filters, TRUE),
                            [fs |-> and_.fs, ow |-> and_.ow, frags |-> <<>>, exc |-> NoExc])
    ELSE [and_ EXCEPT !.frags = <<>>]

\* lines 323-329 with the built flag set before the fragments are joined, so that it
\* stays set when a group raises
FinishSqlFlagFirst(self, and_, or_) ==
    IF or_.exc # NoExc
    THEN [fs |-> [or_.fs EXCEPT ![self].conditions_built = TRUE],
          ow |-> or_.ow, exc |-> or_.exc, sql |-> <<>>]
    ELSE The({[fs |-> [or_.fs EXCEPT ![self].conditions_built = TRUE,
                                     ![self].sql_cached = TRUE,
                                     ![self].sql = raw_sql],
               ow |-> or_.ow, exc |-> NoExc, sql |-> raw_sql] :
                 raw_sql \in {RawSql(or_.fs[self].cls, and_.frags, or_.frags)}})

\* lines 323-329 after both groups: the fragment is cached and the built flag set,
\* unless a group raised
FinishSql(self, and_, or_) ==
    IF or_.exc # NoExc
    THEN [fs |-> or_.fs, ow |-> or_.ow, exc |-> or_.exc, sql |-> <<>>]
    ELSE The({[fs |-> [or_.fs EXCEPT ![self].conditions_built = TRUE,
                                     ![self].sql_cached = TRUE,
                                     ![self].sql = raw_sql],
               ow |-> or_.ow, exc |-> NoExc, sql |-> raw_sql] :
                 raw_sql \in {RawSql(or_.fs[self].cls, and_.frags, or_.frags)}})

\* the body of RawSQLFilterSet.sql (the property is not cached yet): [fs, ow, exc, sql]
BuildSql(self, fs, ow) ==
    The(UNION {{FinishSql(self, and_, or_) : or_ \in {OrConditions(self, and_)}} :
                and_ \in {AndConditions(self, fs, ow)}})

\* what an operation of the filter builder returned or raised
Outcome(op, inst, exc, sql, params) ==
    [op |-> op, inst |-> inst, exc |-> exc, sql |-> sql, params |-> params]

(***************************************************************************)
(* Operations of the filter builder.                                       *)
(***************************************************************************)
\* RawSQLFilterSet.__init__ for one of the requests
ConstructFor(self, requests) ==
    /\ ~filterset[self].alive
    /\ \E request \in requests : \E b \in {BuildRequestFilters(request)} :
          IF b.exc # ""
          THEN /\ last' = Outcome("init", self, Exc(b.exc, ""), <<>>, <<>>)
               /\ UNCHANGED <<filterset, owner>>
          ELSE /\ filterset' = [filterset EXCEPT ![self] =
                     [alive |-> TRUE, cls |-> fsclass, request_filters |-> b.rf,
                      params_values |-> <<>>, conditions_built |-> FALSE,
                      sql_cached |-> FALSE, sql |-> <<>>]]
               /\ owner' = [n \in AllFieldNames |->
                               IF n \in FieldNames(fsclass) THEN self ELSE owner[n]]
               /\ last' = Outcome("init", self, NoExc, <<>>, <<>>)
    /\ UNCHANGED <<fsclass, lvars>>

\* RawSQLFilterSet.__init__ for a request
Construct(self) == ConstructFor(self, Requests(fsclass))

\* the most values that failed builds may have left in _params_values when sql is read again
MaxLeftover == 2

\* reading RawSQLFilterSet.sql (a cached_property)
Sql(self) ==
    /\ filterset[self].alive
    /\ \/ filterset[self].sql_cached
       \/ \A inst \in Instances : Len(filterset[inst].params_values) <= MaxLeftover
    /\ IF filterset[self].sql_cached
       THEN /\ last' = Outcome("sql", self, NoExc, filterset[self].sql, <<>>)
            /\ UNCHANGED <<filterset, owner>>
       ELSE \E r \in {BuildSql(self, filterset, owner)} :
                /\ filterset' = r.fs
                /\ owner' = r.ow
                /\ last' = Outcome("sql", self, r.exc, r.sql, <<>>)
    /\ UNCHANGED <<fsclass, lvars>>

\* reading RawSQLFilterSet.params
Params(self) ==
    /\ filterset[self].alive
    /\ last' = IF filterset[self].conditions_built
               THEN Outcome("params", self, NoExc, <<>>, filterset[self].params_values)
               ELSE Outcome("params", self, Exc("AssertionError", ""), <<>>, <<>>)
    /\ UNCHANGED <<filterset, owner, fsclass, lvars>>

(***************************************************************************)
(* The loader.  An artifact is a file name; its text is a string of       *)
(* characters.                                                             *)
(***************************************************************************)
IsWord(c) == IsDigit(c) \/ c = "_" \/ (\E k \in 1..26 : Upper[k] = c \/ Lowercase[k] = c)

\* text[p..] starts with the literal
StartsWith(text, p, lit) ==
    /\ p + Len(lit) - 1 <= Len(text)
    /\ \A k \in 1..Len(lit) : text[p + k - 1] = lit[k]

\* the end of the longest run of word characters that starts at p (p - 1 if there is none)
RECURSIVE WordEnd(_, _)
WordEnd(text, p) ==
    IF p <= Len(text) /\ IsWord(text[p]) THEN WordEnd(text, p + 1) ELSE p - 1

\* Loader.REGEXP from the kind token on: (VIEW|FUNCTION), a space, [^_]\w+
MatchKindName(text, p) ==
    LET typ == IF StartsWith(text, p, <<"V", "I", "E", "W">>) THEN <<"V", "I", "E", "W">>
               ELSE IF StartsWith(text, p, <<"F", "U", "N", "C", "T", "I", "O", "N">>) THEN <<"F", "U", "N", "C", "T", "I", "O", "N">> ELSE <<>>
        q == p + Len(typ) + 1
        e == WordEnd(text, q + 1)
    IN  IF /\ typ # <<>>
           /\ StartsWith(text, p + Len(typ), <<" ">>)
           /\ q <= Len(text) /\ text[q] # "_"
           /\ e >= q + 1
        THEN [ok |-> TRUE, typ |-> typ, name |-> SubSeq(text, q, e), end |-> e]
        ELSE [ok |-> FALSE, typ |-> <<>>, name |-> <<>>, end |-> p]

\* Loader.REGEXP matched at p: 'CREATE ', then '(?:OR REPLACE)?', then ' ', then the rest;
\* the optional group is tried first and given up when the rest does not match
MatchAt(text, p) ==
    LET a == p + Len(<<"C", "R", "E", "A", "T", "E", " ">>)
        with == MatchKindName(text, a + Len(<<"O", "R", " ", "R", "E", "P", "L", "A", "C", "E", " ">>))
        without == MatchKindName(text, a + 1)
    IN  IF ~StartsWith(text, p, <<"C", "R", "E", "A", "T", "E", " ">>) THEN [ok |-> FALSE, typ |-> <<>>, name |-> <<>>, end |-> p]
        ELSE IF StartsWith(text, a, <<"O", "R", " ", "R", "E", "P", "L", "A", "C", "E", " ">>) /\ with.ok THEN with
        ELSE IF StartsWith(text, a, <<" ">>) THEN without
        ELSE [ok |-> FALSE, typ |-> <<>>, name |-> <<>>, end |-> p]

\* the first position from p on at which Loader.REGEXP matches, 0 if there is none
FirstMatch(text, p) ==
    The({IF starts = {} THEN 0 ELSE CHOOSE q \in starts : \A o \in starts : q <= o :
            starts \in {{q \in p..Len(text) : MatchAt(text, q).ok}}})

\* Loader.REGEXP.findall(text) from position p: the (type, name) pairs of the matches,
\* left to right, each search starting where the match before ended
RECURSIVE FindAll(_, _)
FindAll(text, p) ==
    The({IF q = 0 THEN <<>>
         ELSE The({<<[typ |-> m.typ, name |-> m.name]>> \o FindAll(text, m.end + 1) :
                     m \in {MatchAt(text, q)}}) : q \in {FirstMatch(text, p)}})

Files == {"fn.sql", "view.sql", "redef.sql"}

\* what open(file).read() returns
Text(file) ==
    CASE file = "fn.sql" -> <<"C", "R", "E", "A", "T", "E", " ", "O", "R", " ", "R", "E", "P", "L", "A", "C", "E", " ", "F", "U", "N", "C", "T", "I", "O", "N", " ", "t", "e", "s", "t", "_", "f", "u", "n", "c", "t", "i", "o", "n", "(", "a", " ", "i", "n", "t", ")">>
      [] file = "view.sql" -> <<"C", "R", "E", "A", "T", "E", " ", "O", "R", " ", "R", "E", "P", "L", "A", "C", "E", " ", "V", "I", "E", "W", " ", "t", "e", "s", "t", "_", "v", "i", "e", "w", " ", "A", "S", " ", "S", "E", "L", "E", "C", "T", " ", "1", ";", " ", "C", "R", "E", "A", "T", "E", " ", " ", "V", "I", "E", "W", " ", "l", "i", "s", "t", " ", "A", "S", " ", "S", "E", "L", "E", "C", "T", " ", "2", ";", " ", "C", "R", "E", "A", "T", "E", " ", "F", "U", "N", "C", "T", "I", "O", "N", " ", "f", "o", "o", "(", ")">>
      [] file = "redef.sql" -> <<"C", "R", "E", "A", "T", "E", " ", "O", "R", " ", "R", "E", "P", "L", "A", "C", "E", " ", "V", "I", "E", "W", " ", "t", "e", "s", "t", "_", "f", "u", "n", "c", "t", "i", "o", "n", " ", "A", "S", " ", "S", "E", "L", "E", "C", "T", " ", "1", ";", " ", "C", "R", "E", "A", "T", "E", " ", "O", "R", " ", "R", "E", "P", "L", "A", "C", "E", " ", "F", "U", "N", "C", "T", "I", "O", "N", " ", "_", "h", "i", "d", "d", "e", "n", "(", ")">>

\* REGEXP.findall(f.read()) of every artifact
Found == [file \in Files |-> FindAll(Text(file), 1)]

\* Loader.EXECUTORS
Executors(kind) == IF kind = "function" THEN "_execute_sp" ELSE "_execute_view"

\* the attributes that normal lookup finds on a Loader before __getattr__ is tried
LoaderAttributes ==
    {"list", "commit", "connection", "populate_helper", "load_sp_into_db", "add_to_list",
     "columns_from_cursor", "row_to_dict", "REGEXP", "EXECUTORS"}

\* list.remove(x): the list without the first occurrence of x
RECURSIVE Remove(_, _)
Remove(list, x) ==
    IF list = <<>> THEN <<>>
    ELSE IF Head(list) = x THEN Tail(list)
    ELSE <<Head(list)>> \o Remove(Tail(list), x)

\* lines 80-81: every (type, name) found is stored under its name, the kind in lower case
RECURSIVE Register(_, _)
Register(names, found) ==
    IF found = <<>> THEN names
    ELSE Register((Str(Head(found).name) :> Str(Lower(Head(found).typ))) @@
                    [n \in DOMAIN names \ {Str(Head(found).name)} |-> names[n]],
                  Tail(found))

(***************************************************************************)
(* Loader.populate_helper from the i-th step of its loop on: the for loop *)
(* reads self._sp_list by index while _check_file_for_reading removes     *)
(* from that same list.  [list, names, parsed]                            *)
(***************************************************************************)
RECURSIVE PopulateLoop(_, _, _, _, _)
PopulateLoop(list, i, names, parsed, rd) ==
    IF i > Len(list) THEN [list |-> list, names |-> names, parsed |-> parsed]
    ELSE IF ~rd[list[i]]
         THEN PopulateLoop(Remove(list, list[i]), i + 1, names, parsed, rd)
         ELSE PopulateLoop(list, i + 1, Register(names, Found[list[i]]),
                           Append(parsed, list[i]), rd)

\* Loader.populate_helper: the map is emptied, then filled by the loop
PopulateHelper(list, rd) == PopulateLoop(list, 1, <<>>, <<>>, rd)

\* the loop of Loader.load_sp_into_db with the error of cursor.execute caught and logged
\* for each artifact, the loop going on to the next one
RECURSIVE InstallLoopCatching(_, _, _, _, _)
InstallLoopCatching(copy, list, done, bad, rd) ==
    IF copy = <<>> THEN [list |-> list, executed |-> done, exc |-> ""]
    ELSE IF ~rd[Head(copy)]
         THEN InstallLoopCatching(Tail(copy), Remove(list, Head(copy)), done, bad, rd)
         ELSE InstallLoopCatching(Tail(copy), list, Append(done, Head(copy)), bad, rd)

\* the loop of Loader.load_sp_into_db over a copy of the list: [list, executed, exc];
\* bad is the artifact whose SQL the database rejects ("" if none)
RECURSIVE InstallLoop(_, _, _, _, _)
InstallLoop(copy, list, done, bad, rd) ==
    IF copy = <<>> THEN [list |-> list, executed |-> done, exc |-> ""]
    ELSE IF ~rd[Head(copy)] THEN InstallLoop(Tail(copy), Remove(list, Head(copy)), done, bad, rd)
    ELSE IF Head(copy) = bad
         THEN [list |-> list, executed |-> Append(done, Head(copy)), exc |-> "DatabaseError"]
         ELSE InstallLoop(Tail(copy), list, Append(done, Head(copy)), bad, rd)

\* the result modes a caller may pass as ret; "N" stands for a positive integer
RetModes == {"one", "all", "cursor", "N", "first"}

\* where the database fails during a call ("" if nowhere)
FailPoints == {"", "connect", "execute", "fetch"}

\* what Loader._get_res did: the exception raised, where the database failed, whether a
\* cursor was opened, whether this call closed it, whether the statement was executed and
\* the kind of result returned
Res(exc, failed, opened, closed, executed, result) ==
    [exc |-> exc, failed |-> failed, opened |-> opened, closed |-> closed,
     executed |-> executed, result |-> result]

\* the finally clause of Loader._get_res (lines 149-151): whether the cursor is closed
Finally(ret) == ret # "cursor"

\* Loader._get_res with cursor.close() after the rows are read instead of in a finally
\* clause
GetResCloseAtEnd(ret, fail) ==
    IF ret # "N" /\ ret \notin {"one", "all", "cursor"}
    THEN Res("AssertionError", "", FALSE, FALSE, FALSE, "")
    ELSE IF fail = "connect" THEN Res("DatabaseError", "connect", FALSE, FALSE, FALSE, "")
    ELSE IF fail = "execute" THEN Res("DatabaseError", "execute", TRUE, FALSE, FALSE, "")
    ELSE IF ret = "cursor" THEN Res("", "", TRUE, FALSE, TRUE, "cursor")
    ELSE IF fail = "fetch" THEN Res("DatabaseError", "fetch", TRUE, FALSE, TRUE, "")
    ELSE Res("", "", TRUE, TRUE, TRUE, IF ret = "one" THEN "row" ELSE "rows")

\* Loader._get_res
GetRes(ret, fail) ==
    IF ret # "N" /\ ret \notin {"one", "all", "cursor"}
    THEN Res("AssertionError", "", FALSE, FALSE, FALSE, "")
    ELSE IF fail = "connect" THEN Res("DatabaseError", "connect", FALSE, FALSE, FALSE, "")
    ELSE IF fail = "execute" THEN Res("DatabaseError", "execute", TRUE, Finally(ret), FALSE, "")
    ELSE IF ret = "cursor" THEN Res("", "", TRUE, FALSE, TRUE, "cursor")
    ELSE IF fail = "fetch" THEN Res("DatabaseError", "fetch", TRUE, Finally(ret), TRUE, "")
    ELSE Res("", "", TRUE, Finally(ret), TRUE, IF ret = "one" THEN "row" ELSE "rows")

\* Loader.__getitem__: [exc, executor]
GetItem(names, item) ==
    IF item \notin DOMAIN names THEN [exc |-> "KeyError", executor |-> ""]
    ELSE [exc |-> "", executor |-> Executors(names[item])]

\* attribute access loader.<item>: normal lookup, then Loader.__getattr__
GetAttr(names, item) ==
    IF item \in LoaderAttributes THEN [exc |-> "", executor |-> "Loader." \o item]
    ELSE IF item \in DOMAIN names THEN GetItem(names, item)
    ELSE [exc |-> "AttributeError", executor |-> ""]

\* what an operation of the loader did; again: populate_helper ran right after populate_helper
LoaderOutcome(op, list_before, names_before, parsed, executed, exc) ==
    [op |-> op, list_before |-> list_before, names_before |-> names_before,
     parsed |-> parsed, executed |-> executed, exc |-> exc,
     style |-> "", name |-> "", ret |-> "", fail |-> "", executor |-> "", result |-> "",
     cursor |-> 0, again |-> FALSE]

\* the most artifacts of the list
MaxList == 2

(***************************************************************************)
(* Operations of the loader.                                               *)
(***************************************************************************)
\* Loader.populate_helper
Populate ==
    \E r \in {PopulateHelper(sp_list, readable)} :
        /\ sp_list' = r.list
        /\ sp_names' = r.names
        /\ lcall' = [LoaderOutcome("populate", sp_list, sp_names, r.parsed, <<>>, "")
                        EXCEPT !.again = lcall.op = "populate"]
        /\ cursors' = <<>>
        /\ UNCHANGED <<readable, pop, fvars>>

\* Loader.add_to_list
AddToList(file) ==
    /\ Len(sp_list) < MaxList
    /\ sp_list' = Append(sp_list, file)
    /\ lcall' = LoaderOutcome("add_to_list", sp_list, sp_names, <<>>, <<>>, "")
    /\ cursors' = <<>>
    /\ UNCHANGED <<sp_names, readable, pop, fvars>>

\* Loader.load_sp_into_db: one cursor for the batch, closed when the with block is left
Install(bad) ==
    \E r \in {InstallLoop(sp_list, sp_list, <<>>, bad, readable)} :
        /\ bad \in {""} \cup {sp_list[k] : k \in 1..Len(sp_list)}
        /\ bad # "" => readable[bad]
        /\ sp_list' = r.list
        /\ cursors' = <<"closed">>
        /\ lcall' = [LoaderOutcome("install", sp_list, sp_names, <<>>, r.executed, r.exc)
                        EXCEPT !.cursor = 1, !.fail = bad]
        /\ UNCHANGED <<sp_names, readable, pop, fvars>>

\* what a call did once the name was looked up: g is the lookup, r what _get_res did
Called(base, name, ret, g, r) ==
    IF g.exc # "" \/ g.executor \notin {"_execute_sp", "_execute_view"}
    THEN [base EXCEPT !.exc = g.exc, !.executor = g.executor]
    ELSE [base EXCEPT !.exc = r.exc, !.executor = g.executor, !.ret = ret, !.fail = r.failed,
                      !.executed = IF r.executed THEN <<name>> ELSE <<>>,
                      !.result = r.result,
                      !.cursor = IF r.opened THEN 1 ELSE 0]

\* a call of a stored object by name: loader[name](ret=ret) or loader.name(ret=ret).
\* loader.list and the other attributes of Loader, read while the map holds no object of
\* that name, are uses of the attribute and no dispatch by name
Call(style, name, ret, fail) ==
    /\ style = "attr" /\ name \in LoaderAttributes => name \in DOMAIN sp_names
    /\ \E g \in {IF style = "item" THEN GetItem(sp_names, name) ELSE GetAttr(sp_names, name)} :
       \E r \in {GetRes(ret, fail)} :
          \* the database fails where the call gets to, and a call that the lookup ends
          \* passes no arguments on
          /\ r.failed = fail
          /\ g.exc # "" \/ g.executor \notin {"_execute_sp", "_execute_view"}
                => ret = "one" /\ fail = ""
          /\ lcall' = Called([LoaderOutcome("call", sp_list, sp_names, <<>>, <<>>, "")
                                EXCEPT !.style = style, !.name = name], name, ret, g, r)
          /\ cursors' = IF g.exc = "" /\ g.executor \in {"_execute_sp", "_execute_view"}
                           /\ r.opened
                        THEN <<IF r.closed THEN "closed" ELSE "open">>
                        ELSE <<>>
    /\ UNCHANGED <<sp_list, sp_names, readable, pop, fvars>>

(***************************************************************************)
(* Loader.populate_helper statement by statement, for callers that read    *)
(* the map while it runs (the loader is a module-level object that every   *)
(* thread of the process shares) or after it raised.                       *)
(***************************************************************************)
\* line 74: self._sp_names = {}
PopulateBegin ==
    /\ ~pop.active
    /\ sp_names' = <<>>
    /\ pop' = [active |-> TRUE, i |-> 1, parsed |-> <<>>, list_before |-> sp_list,
               old |-> sp_names, new |-> PopulateHelper(sp_list, readable).names]
    /\ lcall' = [LoaderOutcome("populate", sp_list, sp_names, <<>>, <<>>, "")
                    EXCEPT !.result = "running"]
    /\ UNCHANGED <<sp_list, readable, cursors, fvars>>

\* lines 75-81: one turn of the for loop, or its end; raises tells whether open() or
\* read() of the artifact raises although os.access found it readable
PopulateStep(raises) ==
    /\ pop.active
    /\ IF pop.i > Len(sp_list)
       THEN /\ ~raises
            /\ pop' = [pop EXCEPT !.active = FALSE]
            /\ lcall' = LoaderOutcome("populate", pop.list_before, pop.old, pop.parsed, <<>>, "")
            /\ UNCHANGED <<sp_list, sp_names>>
       ELSE IF ~readable[sp_list[pop.i]]
       THEN /\ ~raises
            /\ sp_list' = Remove(sp_list, sp_list[pop.i])
            /\ pop' = [pop EXCEPT !.i = @ + 1]
            /\ UNCHANGED <<sp_names, lcall>>
       ELSE IF raises
       THEN /\ pop' = [pop EXCEPT !.active = FALSE]
            /\ lcall' = LoaderOutcome("populate", pop.list_before, pop.old, pop.parsed, <<>>,
                                      "OSError")
            /\ UNCHANGED <<sp_list, sp_names>>
       ELSE /\ sp_names' = Register(sp_names, Found[sp_list[pop.i]])
            /\ pop' = [pop EXCEPT !.i = @ + 1, !.parsed = Append(@, sp_list[pop.i])]
            /\ UNCHANGED <<sp_list, lcall>>
    /\ UNCHANGED <<readable, cursors, fvars>>

\* Loader.__contains__: name in loader
Contains(name) ==
    /\ lcall' = [LoaderOutcome("contains", sp_list, sp_names, <<>>, <<>>, "")
                    EXCEPT !.name = name,
                           !.result = IF name \in DOMAIN sp_names THEN "True" ELSE "False"]
    /\ UNCHANGED <<sp_list, sp_names, readable, cursors, pop, fvars>>

\* the names callers ask for
CallNames == {"test_function", "test_view", "Test_view", "list"}

(***************************************************************************)
(* Specifications.                                                         *)
(***************************************************************************)
\* no call of populate_helper is running; old and new are the map before the last call
\* began and the map that the call builds when it runs to its end
NotPopulating(old, new) ==
    [active |-> FALSE, i |-> 0, parsed |-> <<>>, list_before |-> <<>>, old |-> old, new |-> new]

LoaderIdle ==
    /\ pop = NotPopulating(<<>>, <<>>)
    /\ sp_list = <<>>
    /\ sp_names = <<>>
    /\ readable = [f \in Files |-> TRUE]
    /\ cursors = <<>>
    /\ lcall = LoaderOutcome("", <<>>, <<>>, <<>>, <<>>, "")

FilterIdle ==
    /\ fsclass = GenericFilterSet
    /\ filterset = [i \in Instances |-> NoInstance]
    /\ owner = [n \in AllFieldNames |-> "None"]
    /\ last = Outcome("", "", NoExc, <<>>, <<>>)

\* the filter builder: a filter set class is declared, no instance exists yet
Init ==
    /\ fsclass \in FilterSetClasses
    /\ filterset = [i \in Instances |-> NoInstance]
    /\ owner = [n \in AllFieldNames |-> "None"]
    /\ last = Outcome("", "", NoExc, <<>>, <<>>)
    /\ LoaderIdle

Next ==
    \/ Construct("A")
    \/ Sql("A")
    \/ Params("A")

Spec == Init /\ [][Next]_vars

\* the most query parameters of a request when two filter sets are alive
SharedParams == 1

\* two filter sets of one class in one thread: every instance is constructed, read and
\* asked for its parameters in any order
SharedNext ==
    \E self \in Instances :
        \/ ConstructFor(self, RequestsOf(fsclass, SharedParams))
        \/ Sql(self)
        \/ Params(self)

SharedSpec == Init /\ [][SharedNext]_vars

\* the artifact lists that the constructor may find: distinct files in any order
InitialLists ==
    {list \in UNION {[1..n -> Files] : n \in 0..MaxList} :
        \A a, b \in 1..Len(list) : a # b => list[a] # list[b]}

\* the loader after Loader.__init__, which ends with populate_helper
LoaderInit ==
    /\ FilterIdle
    /\ readable \in [Files -> BOOLEAN]
    /\ cursors = <<>>
    /\ \E list \in InitialLists : \E r \in {PopulateHelper(list, readable)} :
          /\ sp_list = r.list
          /\ sp_names = r.names
          /\ pop = NotPopulating(<<>>, r.names)
          /\ lcall = LoaderOutcome("populate", list, <<>>, r.parsed, <<>>, "")

LoaderNext ==
    \/ Populate
    \/ \E file \in Files : AddToList(file)
    \/ \E bad \in Files \cup {""} : Install(bad)
    \/ \E style \in {"item", "attr"}, name \in CallNames, ret \in RetModes, fail \in FailPoints :
          Call(style, name, ret, fail)

LoaderSpec == LoaderInit /\ [][LoaderNext]_vars

\* the loader read while populate_helper runs, and after populate_helper raised
RebuildNext ==
    \/ PopulateBegin
    \/ \E raises \in BOOLEAN : PopulateStep(raises)
    \/ \E name \in CallNames : Contains(name)

RebuildSpec == LoaderInit /\ [][RebuildNext]_vars

(***************************************************************************)
(* Properties.  What the formulas read of a filter set instance.          *)
(***************************************************************************)
\* the number of %s placeholders of a fragment
RECURSIVE Placeholders(_)
Placeholders(sql) ==
    IF sql = <<>> THEN 0
    ELSE (IF Head(sql) = "%s" THEN 1 ELSE 0) + Placeholders(Tail(sql))

\* the declared fields of an instance's class
FieldsOf(inst) == {filterset[inst].cls.filters[k] : k \in 1..Len(filterset[inst].cls.filters)}

\* the request of the instance holds one condition for field f and none for any other field
OnlyCondition(inst, f) ==
    /\ Len(filterset[inst].request_filters[f.name]) = 1
    /\ \A g \in FieldsOf(inst) : g.name # f.name => filterset[inst].request_filters[g.name] = <<>>

\* the fields that get the implicit condition of their default
Defaulted(inst) ==
    {f \in FieldsOf(inst) : f.default # NoneV /\ filterset[inst].request_filters[f.name] = <<>>}

\* the fragment holds the tokens of part next to each other, starting at p
HoldsAt(sql, p, part) ==
    /\ p + Len(part) - 1 <= Len(sql)
    /\ \A k \in 1..Len(part) : sql[p + k - 1] = part[k]

\* an isnull condition whose value is true or false in any case
IsNullCondition(c) == c.cond = "isnull" /\ Str(Lower(c.value.s)) \in {"true", "false"}

\* one of the operators of the alias table other than isnull, or no operator
Comparison(c) == c.cond \in {"=", "exact", "gte", "gt", "lte", "lt"}

\* C1: whenever sql has been built without error for an instance, sql holds as many %s
\* placeholders as params holds values
C1_PlaceholdersMatchParams ==
    \A inst \in Instances :
        filterset[inst].sql_cached =>
            Placeholders(filterset[inst].sql) = Len(filterset[inst].params_values)

\* C2: reading params raises AssertionError exactly when sql has not been built for the
\* instance (never read, or read and raised), and returns the values once it has been
C2_ParamsGatedByBuild ==
    last.op = "params" =>
        IF filterset[last.inst].sql_cached
        THEN last.exc = NoExc /\ last.params = filterset[last.inst].params_values
        ELSE last.exc = Exc("AssertionError", "")

\* params was read after a read of sql that raised and left values behind
C2_ParamsAfterFailedSql ==
    /\ last.op = "params"
    /\ last.exc = Exc("AssertionError", "")
    /\ filterset[last.inst].params_values # <<>>

\* C3: a call of a name that the map does not hold fails with a not-found error and runs
\* no statement; a call of a name that the map holds runs the executor of its kind
C3_DispatchExact ==
    lcall.op = "call" =>
        IF lcall.name \in DOMAIN lcall.names_before
        THEN lcall.executor = Executors(lcall.names_before[lcall.name])
        ELSE lcall.exc \in {"KeyError", "AttributeError"} /\ lcall.executed = <<>>

\* C4: populate_helper run right after populate_helper leaves the map as it found it
C4_PopulateIdempotent ==
    lcall.op = "populate" /\ lcall.again => sp_names = lcall.names_before

\* C5: a pass of populate_helper, or of load_sp_into_db that the database did not stop,
\* parses or executes every readable artifact of the list it started with and removes
\* every unreadable one
C5_UnreadableAffectsItself ==
    /\ lcall.op = "populate" =>
          \A k \in 1..Len(lcall.list_before) :
             IF readable[lcall.list_before[k]]
             THEN \E j \in 1..Len(lcall.parsed) : lcall.parsed[j] = lcall.list_before[k]
             ELSE \A j \in 1..Len(sp_list) : sp_list[j] # lcall.list_before[k]
    /\ lcall.op = "install" /\ lcall.exc = "" =>
          \A k \in 1..Len(lcall.list_before) :
             IF readable[lcall.list_before[k]]
             THEN \E j \in 1..Len(lcall.executed) : lcall.executed[j] = lcall.list_before[k]
             ELSE \A j \in 1..Len(sp_list) : sp_list[j] # lcall.list_before[k]

\* C6: when the only condition of a request is isnull with the value true or false, sql
\* is built without error and holds <column> IS NULL or <column> IS NOT NULL with no
\* placeholder after it, and params holds nothing but the defaults of the other fields
C6_IsNullBuilds ==
    \A inst \in Instances : \A f \in FieldsOf(inst) :
        /\ last.op = "sql" /\ last.inst = inst
        /\ OnlyCondition(inst, f)
        /\ IsNullCondition(filterset[inst].request_filters[f.name][1])
        => /\ last.exc = NoExc
           /\ \E p \in 1..Len(last.sql) :
                 /\ HoldsAt(last.sql, p, <<Column(f, f.name)>>)
                 /\ \/ HoldsAt(last.sql, p + 1, <<"IS NULL">>)
                    \/ HoldsAt(last.sql, p + 1, <<"IS NOT NULL">>)
                 /\ ~HoldsAt(last.sql, p + 2, <<"%s">>)
           /\ Len(filterset[inst].params_values) = Cardinality(Defaulted(inst))

\* C7: with logical_or configured, a fragment built without error does not begin with
\* AND, and joins the parenthesized OR group with AND (TRUE in the parentheses when no
\* condition of the group is emitted)
C7_OrGroupWellFormed ==
    \A inst \in Instances :
        filterset[inst].sql_cached /\ filterset[inst].cls.logical_or # <<>> =>
            /\ ~HoldsAt(filterset[inst].sql, 1, <<"AND">>)
            /\ \E p \in 1..Len(filterset[inst].sql) :
                  /\ HoldsAt(filterset[inst].sql, p, <<"AND", "(">>)
                  /\ (\A k \in 1..Len(filterset[inst].cls.logical_or) :
                         filterset[inst].request_filters[filterset[inst].cls.logical_or[k]] = <<>>)
                     => HoldsAt(filterset[inst].sql, p + 2, <<"TRUE", ")">>)

\* C8: when the only condition of a request compares an integer or decimal field with a
\* number, sql raises the ValidationError that names the field exactly when the number is
\* greater than the declared max_value or less than the declared min_value
C8_BoundsEnforced ==
    \A inst \in Instances : \A f \in FieldsOf(inst) :
        /\ last.op = "sql" /\ last.inst = inst
        /\ f.kind \in {"integer", "decimal"}
        /\ OnlyCondition(inst, f)
        /\ Comparison(filterset[inst].request_filters[f.name][1])
        /\ Convert(f, filterset[inst].request_filters[f.name][1].value.s).exc = ""
        => LET v == Convert(f, filterset[inst].request_filters[f.name][1].value.s).v
           IN  last.exc = Exc("ValidationError", f.name)
               <=> \/ f.max_value # NoneV /\ Greater(v, f.max_value)
                   \/ f.min_value # NoneV /\ Less(v, f.min_value)

\* the text is no value of the field's type: no integer, no decimal number, no date and
\* time of the field's format
Unconvertible(f, cs) ==
    CASE f.kind = "integer" -> ConvInt(cs).exc # ""
      [] f.kind = "decimal" -> ConvDecimal(cs).exc # ""
      [] f.kind = "datetime" ->
            \/ ~MatchesFormat(cs, IF f.input_format # <<>> THEN f.input_format ELSE DateTimeFormat)
            \/ ~ValidFields(cs)
      [] OTHER -> FALSE

\* C9: when the only condition of a request compares a field with a text that is no value
\* of the field's type, sql raises the ValidationError that names the field and params
\* receives no null value
C9_ConversionErrorNamesField ==
    \A inst \in Instances : \A f \in FieldsOf(inst) :
        /\ last.op = "sql" /\ last.inst = inst
        /\ OnlyCondition(inst, f)
        /\ Comparison(filterset[inst].request_filters[f.name][1])
        /\ Unconvertible(f, filterset[inst].request_filters[f.name][1].value.s)
        => /\ last.exc = Exc("ValidationError", f.name)
           /\ \A k \in 1..Len(filterset[inst].params_values) :
                 filterset[inst].params_values[k] # NoneV

\* C10: the cursor that a call opened is closed when the call ends in the result modes
\* one, all and N, however the call ends, and is open when it ends in the result mode
\* cursor, which returns it
C10_CursorLifecycle ==
    lcall.op = "call" /\ lcall.cursor # 0 =>
        /\ lcall.ret \in {"one", "all", "N"} => cursors[lcall.cursor] = "closed"
        /\ lcall.ret = "cursor" =>
              /\ cursors[lcall.cursor] = "open"
              /\ lcall.exc = "" => lcall.result = "cursor"

\* a call in the result mode all opened a cursor and failed while the rows were read
C10_FetchFailed ==
    /\ lcall.op = "call"
    /\ lcall.cursor # 0
    /\ lcall.ret = "all"
    /\ lcall.fail = "fetch"

\* the declarations that a text holds: CREATE, optionally OR REPLACE, the kind token and
\* a name of word characters, one space between them: [kind, name, at]
DeclaredIn(text) ==
    LET heads == { <<"C", "R", "E", "A", "T", "E", " ">>,
                   <<"C", "R", "E", "A", "T", "E", " ", "O", "R", " ", "R", "E", "P", "L", "A", "C", "E", " ">> }
        kinds == { <<"F", "U", "N", "C", "T", "I", "O", "N">>, <<"V", "I", "E", "W">> }
    IN  { [kind |-> Str(Lower(k)), at |-> p,
           name |-> SubSeq(text, p + Len(h) + Len(k) + 1, WordEnd(text, p + Len(h) + Len(k) + 1))] :
            <<p, h, k>> \in { t \in (1..Len(text)) \X heads \X kinds :
                                /\ StartsWith(text, t[1], t[2] \o t[3] \o <<" ">>)
                                /\ WordEnd(text, t[1] + Len(t[2]) + Len(t[3]) + 1)
                                      >= t[1] + Len(t[2]) + Len(t[3]) + 1 } }

\* the declarations of every artifact
Declared == [file \in Files |-> DeclaredIn(Text(file))]

\* the declarations of the artifacts that the last pass of populate_helper parsed
ParsedDeclarations ==
    UNION {Declared[lcall.parsed[k]] : k \in 1..Len(lcall.parsed)}

\* C11: after populate_helper, every declaration CREATE [OR REPLACE] FUNCTION|VIEW <name> of
\* a parsed artifact whose name does not start with _ is in the map under its name, with
\* the kind in lower case of a declaration of that name, and a declaration whose name
\* starts with _ leaves no entry
C11_DeclarationsRegistered ==
    lcall.op = "populate" =>
        \A d \in ParsedDeclarations :
            IF d.name[1] = "_" THEN Str(d.name) \notin DOMAIN sp_names
            ELSE /\ Str(d.name) \in DOMAIN sp_names
                 /\ \E o \in ParsedDeclarations :
                       o.name = d.name /\ sp_names[Str(d.name)] = o.kind

\* the fragment holds the token somewhere
HasToken(sql, token) == \E p \in 1..Len(sql) : sql[p] = token

\* C12: in a fragment built without error, a field declared with map_to appears under the
\* column map_to and never under its own name, for a request condition as for the implicit
\* condition of its default, which is <column> = %s with the default among the params
C12_MappedColumnNamed ==
    \A inst \in Instances : \A f \in FieldsOf(inst) :
        filterset[inst].sql_cached /\ f.map_to # <<>> =>
            /\ ~HasToken(filterset[inst].sql, f.name)
            /\ filterset[inst].request_filters[f.name] # <<>>
                  => HasToken(filterset[inst].sql, f.map_to[1])
            /\ f \in Defaulted(inst) =>
                  /\ \E p \in 1..Len(filterset[inst].sql) :
                        HoldsAt(filterset[inst].sql, p, <<f.map_to[1], "=", "%s">>)
                  /\ \E k \in 1..Len(filterset[inst].params_values) :
                        filterset[inst].params_values[k] = f.default

\* the readable artifacts of a list, in the order of the list
ReadableOf(list) ==
    LET IsReadable(file) == readable[file]
    IN  SelectSeq(list, IsReadable)

\* C13: load_sp_into_db opens one cursor, which is closed when it ends.  When the database
\* rejects no artifact it executes the readable artifacts in the order of the list; when
\* the database rejects one, DatabaseError is raised and what was executed is the readable
\* artifacts up to the first rejected one, none after it
C13_InstallAbortsOnFailure ==
    lcall.op = "install" =>
        /\ lcall.cursor = 1 /\ cursors = <<"closed">>
        /\ IF lcall.fail = ""
           THEN lcall.exc = "" /\ lcall.executed = ReadableOf(lcall.list_before)
           ELSE /\ lcall.exc = "DatabaseError"
                /\ \E n \in 1..Len(ReadableOf(lcall.list_before)) :
                      /\ ReadableOf(lcall.list_before)[n] = lcall.fail
                      /\ \A j \in 1..(n - 1) : ReadableOf(lcall.list_before)[j] # lcall.fail
                      /\ lcall.executed = SubSeq(ReadableOf(lcall.list_before), 1, n)

\* the database rejected an artifact and a readable artifact after it was left unexecuted
C13_LaterArtifactSkipped ==
    /\ lcall.op = "install"
    /\ lcall.exc = "DatabaseError"
    /\ Len(lcall.executed) < Len(ReadableOf(lcall.list_before))

\* C14: whenever a caller reads the map, it is the whole map from before the last call of
\* populate_helper began or the whole map that this call builds, be it while the call runs
\* or after it raised
C14_MapOldOrNew ==
    lcall.op = "contains" => lcall.names_before \in {pop.old, pop.new}

\* the filter set that was constructed last: every field of the class points at it
ConstructedLast(inst) ==
    /\ filterset[inst].alive
    /\ \A n \in FieldNames(fsclass) : owner[n] = inst

\* the step builds the SQL fragment of inst and raises nothing
BuildsSqlOf(inst) ==
    /\ filterset[inst].alive
    /\ ~filterset[inst].sql_cached
    /\ last'.op = "sql" /\ last'.inst = inst /\ last'.exc = NoExc
    /\ filterset'[inst].sql_cached

\* C15: when A was constructed, then B of the same class, and A.sql is then built, A's
\* parameter sequence grows by one value per placeholder of A.sql and B's parameter
\* sequence stays as it was
C15_InstancesIndependent ==
    [][BuildsSqlOf("A") /\ ConstructedLast("B") =>
          /\ filterset'["B"].params_values = filterset["B"].params_values
          /\ Len(filterset'["A"].params_values)
                = Len(filterset["A"].params_values) + Placeholders(filterset'["A"].sql)]_vars

\* the operators that a fragment of a field other than a search field may hold
FixedOperators == {">=", ">", "<=", "<", "=", "IS NULL", "IS NOT NULL"}

\* the columns that the fields of a filter set other than its search fields name
PlainColumns(inst) ==
    UNION {{f.name, Column(f, f.name)} : f \in {g \in FieldsOf(inst) : g.kind # "search"}}

\* C16: in a fragment built without error, the token after the column of every field other
\* than a search field is one of the fixed operators, whatever operator suffix the request
\* carried, and no request makes a field refer to anything but a filter set
C16_FixedVocabulary ==
    /\ \A inst \in Instances :
          filterset[inst].sql_cached =>
              \A p \in 1..(Len(filterset[inst].sql) - 1) :
                  /\ filterset[inst].sql[p] \in PlainColumns(inst)
                  /\ p = 1 \/ filterset[inst].sql[p - 1] # "ORDER BY"
                  => filterset[inst].sql[p + 1] \in FixedOperators
    /\ \A n \in AllFieldNames : owner[n] \in Instances \cup {"None"}

====
